---- MODULE Spec2Model ----
(***************************************************************************)
(* Model of subsearch.py: the subtitle parsers, the matcher, the           *)
(* deduplicator and the search orchestrator.                               *)
(*                                                                         *)
(* Strings are sequences of one-character strings, so that split, strip,   *)
(* lower, replace and substring containment are computed character by      *)
(* character as Python computes them.  Floats are exact thousandths        *)
(* (start times in milliseconds) and exact fractions (similarities).       *)
(***************************************************************************)
EXTENDS Integers, Sequences, FiniteSets, TLC

(***************************************************************************)
(* Bounds of the model.                                                    *)
(***************************************************************************)
MaxLen == 3

MaxLines == 4

MaxFiles == 2

MaxFields == 4

(***************************************************************************)
(* String primitives (Python str methods used by the program).             *)
(***************************************************************************)
Range(s) == {s[i] : i \in 1..Len(s)}

IsSpace(c) == c \in {" ", "\n", "\t"}

IsDigit(c) == c \in {"0", "1", "2", "3", "4", "5", "6", "7", "8", "9"}

DigitVal(c) ==
  CASE c = "0" -> 0 [] c = "1" -> 1 [] c = "2" -> 2 [] c = "3" -> 3
    [] c = "4" -> 4 [] c = "5" -> 5 [] c = "6" -> 6 [] c = "7" -> 7
    [] c = "8" -> 8 [] c = "9" -> 9

\* str.lower() on one character
LowerChar(c) ==
  CASE c = "A" -> "a" [] c = "B" -> "b" [] c = "C" -> "c" [] c = "D" -> "d"
    [] c = "E" -> "e" [] c = "F" -> "f" [] c = "G" -> "g" [] c = "H" -> "h"
    [] c = "I" -> "i" [] c = "J" -> "j" [] c = "K" -> "k" [] c = "L" -> "l"
    [] c = "M" -> "m" [] c = "N" -> "n" [] c = "O" -> "o" [] c = "P" -> "p"
    [] c = "Q" -> "q" [] c = "R" -> "r" [] c = "S" -> "s" [] c = "T" -> "t"
    [] c = "U" -> "u" [] c = "V" -> "v" [] c = "W" -> "w" [] c = "X" -> "x"
    [] c = "Y" -> "y" [] c = "Z" -> "z"
    [] OTHER -> c

\* str.lower()
Lower(s) == SubSeq([i \in 1..Len(s) |-> LowerChar(s[i])], 1, Len(s))

\* s[i:j] with 1-based inclusive bounds
Slice(s, i, j) == IF j < i THEN <<>> ELSE SubSeq(s, i, j)

\* s.startswith(p) at offset i (1-based)
MatchAt(s, i, p) ==
  /\ i + Len(p) - 1 <= Len(s)
  /\ \A k \in 1..Len(p) : s[i + k - 1] = p[k]

\* s.find(p): the first index at which p occurs in s, 0 when it does not
RECURSIVE FindFrom(_, _, _)
FindFrom(s, p, i) ==
  IF i + Len(p) - 1 > Len(s) THEN 0
  ELSE IF MatchAt(s, i, p) THEN i
  ELSE FindFrom(s, p, i + 1)

Find(s, p) == FindFrom(s, p, 1)

\* p in s
Contains(s, p) == Find(s, p) # 0

\* s.strip()
RECURSIVE FirstNonSpace(_, _)
FirstNonSpace(s, i) ==
  IF i <= Len(s) /\ IsSpace(s[i]) THEN FirstNonSpace(s, i + 1) ELSE i

RECURSIVE LastNonSpace(_, _)
LastNonSpace(s, j) ==
  IF j >= 1 /\ IsSpace(s[j]) THEN LastNonSpace(s, j - 1) ELSE j

Strip(s) == Slice(s, FirstNonSpace(s, 1), LastNonSpace(s, Len(s)))

\* s.replace(a, b) for single characters a and b
ReplaceChar(s, a, b) ==
  SubSeq([i \in 1..Len(s) |-> IF s[i] = a THEN b ELSE s[i]], 1, Len(s))

\* s.split(sep) for a single-character separator: always at least one part
RECURSIVE SplitFrom(_, _, _, _)
SplitFrom(s, sep, start, i) ==
  IF i > Len(s) THEN <<Slice(s, start, Len(s))>>
  ELSE IF s[i] = sep THEN <<Slice(s, start, i - 1)>> \o SplitFrom(s, sep, i + 1, i + 1)
  ELSE SplitFrom(s, sep, start, i + 1)

SplitChar(s, sep) == SplitFrom(s, sep, 1, 1)

\* s.split(): split on runs of whitespace, no empty parts
RECURSIVE SplitWsFrom(_, _, _)
SplitWsFrom(s, start, i) ==
  IF i > Len(s) THEN (IF start < i THEN <<Slice(s, start, Len(s))>> ELSE <<>>)
  ELSE IF IsSpace(s[i])
       THEN (IF start < i THEN <<Slice(s, start, i - 1)>> ELSE <<>>)
            \o SplitWsFrom(s, i + 1, i + 1)
  ELSE SplitWsFrom(s, start, i + 1)

SplitWs(s) == SplitWsFrom(s, 1, 1)

\* sep.join(parts)
RECURSIVE Join(_, _)
Join(parts, sep) ==
  IF parts = <<>> THEN <<>>
  ELSE IF Len(parts) = 1 THEN parts[1]
  ELSE parts[1] \o sep \o Join(Tail(parts), sep)

(***************************************************************************)
(* float(): digits with at most one '.', or the word nan in any case, with *)
(* an optional sign, surrounding whitespace ignored.  A float is a number  *)
(* of thousandths or not-a-number.                                         *)
(***************************************************************************)
Num(ms) == [nan |-> FALSE, ms |-> ms]

NaN == [nan |-> TRUE, ms |-> 0]

\* x + y, x - y, x * k and abs(x); not-a-number propagates
FloatAdd(x, y) == IF x.nan \/ y.nan THEN NaN ELSE Num(x.ms + y.ms)

FloatSub(x, y) == IF x.nan \/ y.nan THEN NaN ELSE Num(x.ms - y.ms)

FloatTimes(x, k) == IF x.nan THEN NaN ELSE Num(x.ms * k)

FloatAbs(x) == IF x.nan THEN NaN ELSE Num(IF x.ms < 0 THEN 0 - x.ms ELSE x.ms)

\* x < y and x <= y; every comparison with not-a-number is false
FloatLess(x, y) == ~x.nan /\ ~y.nan /\ x.ms < y.ms

FloatLeq(x, y) == ~x.nan /\ ~y.nan /\ x.ms <= y.ms

RECURSIVE DigitsVal(_, _)
DigitsVal(s, n) ==
  IF n = 0 THEN 0 ELSE DigitsVal(s, n - 1) * 10 + DigitVal(s[n])

AllDigits(s) == \A i \in 1..Len(s) : IsDigit(s[i])

\* the fraction digits as thousandths
FracMillis(f) ==
  LET d(i) == IF i <= Len(f) THEN DigitVal(f[i]) ELSE 0
  IN  d(1) * 100 + d(2) * 10 + d(3)

UnsignedOk(s) ==
  LET p == SplitChar(s, ".")
  IN  /\ Len(p) \in {1, 2}
      /\ \A i \in 1..Len(p) : AllDigits(p[i])
      /\ \E i \in 1..Len(p) : p[i] # <<>>

UnsignedMillis(s) ==
  LET p == SplitChar(s, ".")
  IN  DigitsVal(p[1], Len(p[1])) * 1000 + (IF Len(p) = 2 THEN FracMillis(p[2]) ELSE 0)

HasSign(s) == s # <<>> /\ Head(s) \in {"+", "-"}

Unsigned(s) == LET t == Strip(s) IN IF HasSign(t) THEN Tail(t) ELSE t

IsNanText(s) == Lower(Unsigned(s)) = <<"n", "a", "n">>

\* float(s) raises ValueError
FloatFails(s) == ~UnsignedOk(Unsigned(s)) /\ ~IsNanText(s)

\* float(s), in thousandths
FloatMillis(s) ==
  LET t == Strip(s)
  IN  IF HasSign(t)
      THEN (IF Head(t) = "-" THEN 0 - UnsignedMillis(Tail(t)) ELSE UnsignedMillis(Tail(t)))
      ELSE UnsignedMillis(t)

\* float(s)
float(s) == IF IsNanText(s) THEN NaN ELSE Num(FloatMillis(s))

(***************************************************************************)
(* int(): an optional sign and decimal digits, surrounding whitespace      *)
(* ignored.                                                                *)
(***************************************************************************)
\* int(s) raises ValueError
IntFails(s) ==
  LET t == Strip(s)
      d == IF HasSign(t) THEN Tail(t) ELSE t
  IN  d = <<>> \/ ~AllDigits(d)

\* int(s)
IntVal(s) ==
  LET t == Strip(s)
      d == IF HasSign(t) THEN Tail(t) ELSE t
  IN  IF HasSign(t) /\ Head(t) = "-" THEN 0 - DigitsVal(d, Len(d)) ELSE DigitsVal(d, Len(d))

(***************************************************************************)
(* Reading a file: open(file_path, encoding='utf-8').read(), then latin-1  *)
(* on a UnicodeDecodeError.  A file on disk is [status, content], status   *)
(* "utf8" (decodes as UTF-8), "latin1" (decodes only as Latin-1) or        *)
(* "unreadable" (open or read raises).                                     *)
(***************************************************************************)
\* the read succeeds: no exception reaches the 'return []' handlers
ReadOk(file) == file.status \in {"utf8", "latin1"}

\* content = file.read().strip()
ReadContent(file) == Strip(file.content)

Cue(n, ts, tx) == [number |-> n, timestamp |-> ts, text |-> tx]

(***************************************************************************)
(* parse_srt_file                                                          *)
(***************************************************************************)
\* the first index >= i that holds no whitespace (Len(s) + 1 when none)
RECURSIVE WsEnd(_, _)
WsEnd(s, i) == IF i <= Len(s) /\ IsSpace(s[i]) THEN WsEnd(s, i + 1) ELSE i

\* the first index >= i that holds whitespace (Len(s) + 1 when none)
RECURSIVE NonWsEnd(_, _)
NonWsEnd(s, i) == IF i <= Len(s) /\ ~IsSpace(s[i]) THEN NonWsEnd(s, i + 1) ELSE i

\* the last index in lo..hi that holds c, 0 when none
RECURSIVE LastIndexOf(_, _, _, _)
LastIndexOf(s, c, lo, hi) ==
  IF hi < lo THEN 0
  ELSE IF s[hi] = c THEN hi
  ELSE LastIndexOf(s, c, lo, hi - 1)

\* re.split(r'\n\s*\n', content): a separator runs from a newline to the last
\* newline of the whitespace that follows it
RECURSIVE SplitBlocksFrom(_, _, _)
SplitBlocksFrom(s, start, i) ==
  IF i > Len(s) THEN <<Slice(s, start, Len(s))>>
  ELSE IF s[i] = "\n" /\ LastIndexOf(s, "\n", i + 1, WsEnd(s, i + 1) - 1) # 0
       THEN LET j == LastIndexOf(s, "\n", i + 1, WsEnd(s, i + 1) - 1)
            IN  <<Slice(s, start, i - 1)>> \o SplitBlocksFrom(s, j + 1, j + 1)
  ELSE SplitBlocksFrom(s, start, i + 1)

SplitBlocks(content) == SplitBlocksFrom(content, 1, 1)

\* the body of the loop over blocks: the cues (none or one) a block adds
ParseSrtBlock(block) ==
  LET lines == SplitChar(Strip(block), "\n")
  IN  IF Strip(block) = <<>> THEN <<>>
      ELSE IF Len(lines) < 3 THEN <<>>
      ELSE IF IntFails(Strip(lines[1])) THEN <<>>
      ELSE <<Cue(IntVal(Strip(lines[1])),
                 Strip(lines[2]),
                 Strip(Join(SubSeq(lines, 3, Len(lines)), <<"\n">>)))>>

RECURSIVE ParseSrtBlocks(_)
ParseSrtBlocks(blocks) ==
  IF blocks = <<>> THEN <<>>
  ELSE ParseSrtBlock(Head(blocks)) \o ParseSrtBlocks(Tail(blocks))

parse_srt_file(file) ==
  IF ~ReadOk(file) THEN <<>>
  ELSE ParseSrtBlocks(SplitBlocks(ReadContent(file)))

(***************************************************************************)
(* parse_vtt_file                                                          *)
(***************************************************************************)
Arrow == <<"-", "-", ">">>

HeaderPrefixes ==
  { <<"W", "E", "B", "V", "T", "T">>, <<"N", "O", "T", "E">>,
    <<"K", "i", "n", "d", ":">>, <<"L", "a", "n", "g", "u", "a", "g", "e", ":">> }

\* the test of the header loop on one line
IsHeaderLine(line) ==
  \/ \E h \in HeaderPrefixes : MatchAt(Strip(line), 1, h)
  \/ Strip(line) = <<>>

\* the header loop: the index of the first line that is no header line
RECURSIVE SkipHeader(_, _)
SkipHeader(lines, i) ==
  IF i <= Len(lines) /\ IsHeaderLine(lines[i]) THEN SkipHeader(lines, i + 1) ELSE i

SettingNames ==
  { <<"a", "l", "i", "g", "n">>, <<"p", "o", "s", "i", "t", "i", "o", "n">>,
    <<"s", "i", "z", "e">>, <<"l", "i", "n", "e">> }

\* (align|position|size|line):[^\s]+ matches at index k
SettingAt(s, k) ==
  \E name \in SettingNames :
    /\ MatchAt(s, k, name \o <<":">>)
    /\ k + Len(name) + 1 <= Len(s)
    /\ ~IsSpace(s[k + Len(name) + 1])

\* re.sub(r'\s+(align|position|size|line):[^\s]+', '', s)
RECURSIVE StripSettings(_, _)
StripSettings(s, i) ==
  IF i > Len(s) THEN <<>>
  ELSE IF IsSpace(s[i]) /\ SettingAt(s, WsEnd(s, i))
       THEN StripSettings(s, NonWsEnd(s, WsEnd(s, i)))
  ELSE <<s[i]>> \o StripSettings(s, i + 1)

\* the timestamp of a cue from its time-range line
VttTimestamp(line) == ReplaceChar(StripSettings(Strip(line), 1), ".", ",")

\* the first index >= i that holds c, 0 when none
RECURSIVE IndexOfFrom(_, _, _)
IndexOfFrom(s, c, i) ==
  IF i > Len(s) THEN 0
  ELSE IF s[i] = c THEN i
  ELSE IndexOfFrom(s, c, i + 1)

\* re.sub(r'<[^>]*>', '', s) and re.sub(r'\{[^}]*\}', '', s)
RECURSIVE RemoveDelimited(_, _, _, _)
RemoveDelimited(s, i, open, close) ==
  IF i > Len(s) THEN <<>>
  ELSE IF s[i] = open /\ IndexOfFrom(s, close, i + 1) # 0
       THEN RemoveDelimited(s, IndexOfFrom(s, close, i + 1) + 1, open, close)
  ELSE <<s[i]>> \o RemoveDelimited(s, i + 1, open, close)

Nbsp == <<"&", "n", "b", "s", "p", ";">>

\* s.replace('&nbsp;', ' ')
RECURSIVE ReplaceNbsp(_, _)
ReplaceNbsp(s, i) ==
  IF i > Len(s) THEN <<>>
  ELSE IF MatchAt(s, i, Nbsp) THEN <<" ">> \o ReplaceNbsp(s, i + Len(Nbsp))
  ELSE <<s[i]>> \o ReplaceNbsp(s, i + 1)

IsLetter(c) ==
  c \in { "a", "b", "c", "d", "e", "f", "g", "h", "i", "j", "k", "l", "m",
          "n", "o", "p", "q", "r", "s", "t", "u", "v", "w", "x", "y", "z",
          "A", "B", "C", "D", "E", "F", "G", "H", "I", "J", "K", "L", "M",
          "N", "O", "P", "Q", "R", "S", "T", "U", "V", "W", "X", "Y", "Z" }

\* the first index >= i that holds no letter (Len(s) + 1 when none)
RECURSIVE LettersEnd(_, _)
LettersEnd(s, i) == IF i <= Len(s) /\ IsLetter(s[i]) THEN LettersEnd(s, i + 1) ELSE i

\* re.sub(r'&[a-zA-Z]+;', '', s)
RECURSIVE RemoveEntities(_, _)
RemoveEntities(s, i) ==
  IF i > Len(s) THEN <<>>
  ELSE IF /\ s[i] = "&"
          /\ LettersEnd(s, i + 1) > i + 1
          /\ LettersEnd(s, i + 1) <= Len(s)
          /\ s[LettersEnd(s, i + 1)] = ";"
       THEN RemoveEntities(s, LettersEnd(s, i + 1) + 1)
  ELSE <<s[i]>> \o RemoveEntities(s, i + 1)

\* the clean-up of one text line
CleanTextLine(line) ==
  RemoveEntities(
    ReplaceNbsp(
      RemoveDelimited(RemoveDelimited(Strip(line), 1, "<", ">"), 1, "{", "}"), 1), 1)

\* the inner loop: the index of the line that ends the text of a cue
RECURSIVE TextEnd(_, _)
TextEnd(lines, i) ==
  IF i <= Len(lines) /\ Strip(lines[i]) # <<>> THEN TextEnd(lines, i + 1) ELSE i

\* the inner loop: the cleaned text lines that are not empty
RECURSIVE CollectText(_, _, _)
CollectText(lines, i, j) ==
  IF i >= j THEN <<>>
  ELSE (IF CleanTextLine(lines[i]) # <<>> THEN <<CleanTextLine(lines[i])>> ELSE <<>>)
       \o CollectText(lines, i + 1, j)

\* every line that is not blank starts a cue
IsCueStartAny(line) == Strip(line) # <<>>

\* a line starts a cue
IsCueStart(line) == Contains(line, Arrow)

\* the main loop, from line i with subtitle_num cues counted so far
RECURSIVE VttScan(_, _, _)
VttScan(lines, i, subtitle_num) ==
  IF i > Len(lines) THEN <<>>
  ELSE IF IsCueStart(lines[i])
       THEN LET j == TextEnd(lines, i + 1)
                text_lines == CollectText(lines, i + 1, j)
            IN  (IF text_lines # <<>>
                 THEN <<Cue(subtitle_num + 1, VttTimestamp(lines[i]),
                            Join(text_lines, <<"\n">>))>>
                 ELSE <<>>)
                \o VttScan(lines, j, subtitle_num + 1)
  ELSE VttScan(lines, i + 1, subtitle_num)

parse_vtt_file(file) ==
  IF ~ReadOk(file) THEN <<>>
  ELSE LET lines == SplitChar(ReadContent(file), "\n")
       IN  VttScan(lines, SkipHeader(lines, 1), 0)

(***************************************************************************)
(* The files on disk.                                                      *)
(***************************************************************************)
NL == <<"\n">>

TimeOne == <<"0", ":", "0", ":", "1", " ", "-", "-", ">", " ", "0", ":", "0", ":", "2">>

TimeTwo == <<"0", ":", "0", ":", "2", ",", "5", " ", "-", "-", ">", " ", "0", ":", "0", ":", "3">>

TimeNine == <<"0", ":", "0", ":", "9", " ", "-", "-", ">", " ", "0", ":", "1", ":", "0">>

TimeDotted ==
  <<"0", ":", "0", ":", "1", ".", "5", " ", "-", "-", ">", " ", "0", ":", "0", ":", "2",
    " ", "l", "i", "n", "e", ":", "0">>

\* two blocks, texts 'Ab c' and 'ab c', 1.5 s apart
SrtContent ==
  Join(<< <<"1">>, TimeOne, <<"A", "b", " ", "c">>, <<>>,
          <<"2">>, TimeTwo, <<"a", "b", " ", "c">> >>, NL)

\* a header and two cues, texts '<i>ab</i> c' and 'C'
VttContent ==
  Join(<< <<"W", "E", "B", "V", "T", "T">>, <<>>,
          TimeDotted, <<"<", "i", ">", "a", "b", "<", "/", "i", ">", " ", "c">>, <<>>,
          TimeNine, <<"C">> >>, NL)

PathSrt == <<"a", ".", "s", "r", "t">>

PathVtt == <<"d", "/", "b", ".", "V", "T", "T">>

PathTxt == <<"c", ".", "t", "x", "t">>

PathGone == <<"g", ".", "s", "r", "t">>

Paths == {PathSrt, PathVtt, PathTxt, PathGone}

\* what open(file_path) finds: g.srt cannot be opened, d/b.VTT is not UTF-8
Disk(file_path) ==
  CASE file_path = PathSrt -> [status |-> "utf8", content |-> SrtContent]
    [] file_path = PathVtt -> [status |-> "latin1", content |-> VttContent]
    [] file_path = PathTxt -> [status |-> "utf8", content |-> SrtContent]
    [] OTHER -> [status |-> "unreadable", content |-> SrtContent]

(***************************************************************************)
(* parse_subtitle_file                                                     *)
(***************************************************************************)
\* the leading dots of a file name do not start an extension
RECURSIVE OnlyDots(_, _, _)
OnlyDots(s, lo, hi) == lo > hi \/ (s[lo] = "." /\ OnlyDots(s, lo + 1, hi))

\* os.path.splitext(file_path)[1]
SplitExt(file_path) ==
  LET sep == LastIndexOf(file_path, "/", 1, Len(file_path))
      dot == LastIndexOf(file_path, ".", 1, Len(file_path))
  IN  IF dot > sep /\ ~OnlyDots(file_path, sep + 1, dot - 1)
      THEN Slice(file_path, dot, Len(file_path))
      ELSE <<>>

ExtSrt == <<".", "s", "r", "t">>

ExtVtt == <<".", "v", "t", "t">>

\* a dispatcher that takes every file that is not .vtt for an SRT file
parse_subtitle_file_lenient(file_path) ==
  IF Lower(SplitExt(file_path)) = ExtVtt
  THEN parse_vtt_file(Disk(file_path))
  ELSE parse_srt_file(Disk(file_path))

parse_subtitle_file(file_path) ==
  LET file_extension == Lower(SplitExt(file_path))
  IN  IF file_extension = ExtSrt THEN parse_srt_file(Disk(file_path))
      ELSE IF file_extension = ExtVtt THEN parse_vtt_file(Disk(file_path))
      ELSE <<>>

(***************************************************************************)
(* deduplicate_matches                                                     *)
(***************************************************************************)
\* the literal ' --> ' of parse_timestamp
SpacedArrow == <<" ", "-", "-", ">", " ">>

\* timestamp.split(' --> ')[0]
StartTimeText(timestamp) ==
  LET k == Find(timestamp, SpacedArrow)
  IN  IF k = 0 THEN timestamp ELSE Slice(timestamp, 1, k - 1)

\* parse_timestamp: the start time in milliseconds, 0 on any failure
parse_timestamp(timestamp) ==
  LET parts == SplitChar(ReplaceChar(StartTimeText(timestamp), ",", "."), ":")
  IN  IF Len(parts) < 3 THEN Num(0)
      ELSE IF \E i \in 1..3 : FloatFails(parts[i]) THEN Num(0)
      ELSE FloatAdd(FloatAdd(FloatTimes(float(parts[1]), 3600),
                             FloatTimes(float(parts[2]), 60)),
                    float(parts[3]))

\* set(text.lower().split())
WordSet(text) == Range(SplitWs(Lower(text)))

\* text_similarity: the fraction <<numerator, denominator>>
text_similarity(text1, text2) ==
  LET words1 == WordSet(text1)
      words2 == WordSet(text2)
  IN  IF words1 = {} /\ words2 = {} THEN <<1, 1>>
      ELSE IF words1 = {} \/ words2 = {} THEN <<0, 1>>
      ELSE <<Cardinality(words1 \cap words2), Cardinality(words1 \cup words2)>>

\* a >= b for fractions with positive denominators
FracGeq(a, b) == a[1] * b[2] >= b[1] * a[2]

\* the literals 2.0 (in milliseconds) and 0.5 of the strict clause
CloseTime == 2000

ModerateSimilarity == <<1, 2>>

\* the duplicate test with the time comparison exclusive
IsDuplicateOfExclusive(current_match, existing_match, similarity_threshold, time_window, strict_mode) ==
  LET similarity == text_similarity(current_match.text, existing_match.text)
      time_diff == FloatAbs(FloatSub(parse_timestamp(current_match.timestamp),
                                     parse_timestamp(existing_match.timestamp)))
  IN  IF strict_mode
      THEN \/ /\ FracGeq(similarity, similarity_threshold)
              /\ FloatLess(time_diff, Num(time_window))
           \/ FloatLeq(time_diff, Num(CloseTime)) /\ FracGeq(similarity, ModerateSimilarity)
      ELSE \/ FracGeq(similarity, similarity_threshold)
           \/ FloatLess(time_diff, Num(time_window))

\* the duplicate test of one candidate against one retained match
IsDuplicateOf(current_match, existing_match, similarity_threshold, time_window, strict_mode) ==
  LET similarity == text_similarity(current_match.text, existing_match.text)
      time_diff == FloatAbs(FloatSub(parse_timestamp(current_match.timestamp),
                                     parse_timestamp(existing_match.timestamp)))
  IN  IF strict_mode
      THEN \/ /\ FracGeq(similarity, similarity_threshold)
              /\ FloatLeq(time_diff, Num(time_window))
           \/ FloatLeq(time_diff, Num(CloseTime)) /\ FracGeq(similarity, ModerateSimilarity)
      ELSE \/ FracGeq(similarity, similarity_threshold)
           \/ FloatLeq(time_diff, Num(time_window))

\* the keys of file_groups, most recently inserted first
RECURSIVE GroupKeysReversed(_, _)
GroupKeysReversed(ms, seen) ==
  IF ms = <<>> THEN seen
  ELSE IF \E i \in 1..Len(seen) : seen[i] = Head(ms).file_path
       THEN GroupKeysReversed(Tail(ms), seen)
  ELSE GroupKeysReversed(Tail(ms), <<Head(ms).file_path>> \o seen)

\* the keys of file_groups, in insertion order
RECURSIVE GroupKeys(_, _)
GroupKeys(ms, seen) ==
  IF ms = <<>> THEN seen
  ELSE IF \E i \in 1..Len(seen) : seen[i] = Head(ms).file_path
       THEN GroupKeys(Tail(ms), seen)
  ELSE GroupKeys(Tail(ms), Append(seen, Head(ms).file_path))

\* file_groups[file_path]
GroupOf(ms, file_path) ==
  LET Same(m) == m.file_path = file_path IN SelectSeq(ms, Same)

\* list.sort(key=...) computes each key once and compares the keys with <
\* only.  A list of fewer than 64 entries is sorted by finding the run it
\* starts with and inserting the remaining entries by binary search.
\* RunEnd: the length of the run that starts keyed, n entries of it known
RECURSIVE RunEnd(_, _, _)
RunEnd(keyed, n, descending) ==
  IF n = Len(keyed) THEN n
  ELSE IF FloatLess(keyed[n + 1][1], keyed[n][1]) = descending
       THEN RunEnd(keyed, n + 1, descending)
  ELSE n

Reversed(q) == SubSeq([i \in 1..Len(q) |-> q[Len(q) + 1 - i]], 1, Len(q))

\* the place of the pair e = <<key, match>> among sorted[l..r-1]
RECURSIVE InsertionPoint(_, _, _, _)
InsertionPoint(sorted, e, l, r) ==
  IF l >= r THEN l
  ELSE LET p == l + (r - l) \div 2
       IN  IF FloatLess(e[1], sorted[p][1])
           THEN InsertionPoint(sorted, e, l, p)
           ELSE InsertionPoint(sorted, e, p + 1, r)

InsertByKey(sorted, e) ==
  LET l == InsertionPoint(sorted, e, 1, Len(sorted) + 1)
  IN  SubSeq(sorted, 1, l - 1) \o <<e>> \o SubSeq(sorted, l, Len(sorted))

\* the entries keyed[n+1..] inserted into sorted one by one
RECURSIVE InsertFrom(_, _, _)
InsertFrom(sorted, keyed, n) ==
  IF n >= Len(keyed) THEN sorted
  ELSE InsertFrom(InsertByKey(sorted, keyed[n + 1]), keyed, n + 1)

SortKeyed(keyed) ==
  IF Len(keyed) < 2 THEN keyed
  ELSE LET descending == FloatLess(keyed[2][1], keyed[1][1])
           n == RunEnd(keyed, 2, descending)
           run == SubSeq(keyed, 1, n)
       IN  InsertFrom(IF descending THEN Reversed(run) ELSE run, keyed, n)

\* file_matches.sort(key=lambda x: parse_timestamp(x.timestamp))
SortByTime(ms) ==
  LET keyed == SubSeq([i \in 1..Len(ms) |-> <<parse_timestamp(ms[i].timestamp), ms[i]>>],
                      1, Len(ms))
      sorted == SortKeyed(keyed)
  IN  SubSeq([i \in 1..Len(ms) |-> sorted[i][2]], 1, Len(ms))

\* a loop that tests a candidate against the last retained match only
RECURSIVE FilterMatchesLastOnly(_, _, _, _, _)
FilterMatchesLastOnly(file_matches, filtered_matches, similarity_threshold, time_window, strict_mode) ==
  IF file_matches = <<>> THEN filtered_matches
  ELSE LET current_match == Head(file_matches)
           is_duplicate ==
             /\ filtered_matches # <<>>
             /\ IsDuplicateOf(current_match, filtered_matches[Len(filtered_matches)],
                              similarity_threshold, time_window, strict_mode)
       IN  FilterMatchesLastOnly(Tail(file_matches),
                                 IF is_duplicate THEN filtered_matches
                                 ELSE Append(filtered_matches, current_match),
                                 similarity_threshold, time_window, strict_mode)

\* the loop over file_matches that builds filtered_matches
RECURSIVE FilterMatches(_, _, _, _, _)
FilterMatches(file_matches, filtered_matches, similarity_threshold, time_window, strict_mode) ==
  IF file_matches = <<>> THEN filtered_matches
  ELSE LET current_match == Head(file_matches)
           is_duplicate ==
             \E k \in 1..Len(filtered_matches) :
               IsDuplicateOf(current_match, filtered_matches[k],
                             similarity_threshold, time_window, strict_mode)
       IN  FilterMatches(Tail(file_matches),
                         IF is_duplicate THEN filtered_matches
                         ELSE Append(filtered_matches, current_match),
                         similarity_threshold, time_window, strict_mode)

\* every group filtered as if all matches were of one file
DedupGroupsUngrouped(keys, ms, similarity_threshold, time_window, strict_mode) ==
  FilterMatches(SortByTime(ms), <<>>, similarity_threshold, time_window, strict_mode)

\* the loop over file_groups.items() that builds deduplicated
RECURSIVE DedupGroups(_, _, _, _, _)
DedupGroups(keys, ms, similarity_threshold, time_window, strict_mode) ==
  IF keys = <<>> THEN <<>>
  ELSE FilterMatches(SortByTime(GroupOf(ms, Head(keys))), <<>>,
                     similarity_threshold, time_window, strict_mode)
       \o DedupGroups(Tail(keys), ms, similarity_threshold, time_window, strict_mode)

deduplicate_matches(ms, similarity_threshold, time_window, strict_mode) ==
  IF ms = <<>> THEN ms
  ELSE DedupGroups(GroupKeys(ms, <<>>), ms, similarity_threshold, time_window, strict_mode)

(***************************************************************************)
(* search_in_subtitle_files                                                *)
(***************************************************************************)
Match(fp, ts, n, tx) ==
  [file_path |-> fp, timestamp |-> ts, subtitle_number |-> n, text |-> tx]

\* the test 'term in search_text' of a comparison that never folds case
ContainsTermExact(text, search_term, case_sensitive) == Contains(text, search_term)

\* the test 'term in search_text'
ContainsTerm(text, search_term, case_sensitive) ==
  LET search_text == IF case_sensitive THEN text ELSE Lower(text)
      term == IF case_sensitive THEN search_term ELSE Lower(search_term)
  IN  Contains(search_text, term)

\* the loop over the subtitles of one file: the matches it appends
RECURSIVE MatchSubtitles(_, _, _, _)
MatchSubtitles(file_path, subtitles, search_term, case_sensitive) ==
  IF subtitles = <<>> THEN <<>>
  ELSE LET subtitle == Head(subtitles)
       IN  (IF ContainsTerm(subtitle.text, search_term, case_sensitive)
            THEN <<Match(file_path, subtitle.timestamp, subtitle.number, subtitle.text)>>
            ELSE <<>>)
           \o MatchSubtitles(file_path, Tail(subtitles), search_term, case_sensitive)

\* the loop over file_paths: matches before deduplication
RECURSIVE SearchFiles(_, _, _)
SearchFiles(paths, search_term, case_sensitive) ==
  IF paths = <<>> THEN <<>>
  ELSE MatchSubtitles(Head(paths), parse_subtitle_file(Head(paths)), search_term, case_sensitive)
       \o SearchFiles(Tail(paths), search_term, case_sensitive)

search_in_subtitle_files(paths, search_term, case_sensitive, dedupe, similarity_threshold, time_window, strict_dedup) ==
  LET found == SearchFiles(paths, search_term, case_sensitive)
  IN  IF dedupe
      THEN deduplicate_matches(found, similarity_threshold, time_window, strict_dedup)
      ELSE found

(***************************************************************************)
(* The matches given to deduplicate_matches: two files, start times 0 s    *)
(* (an unparseable time range), 2 s, 3 s and not-a-number, and texts whose *)
(* word sets are {a, b}, {a} and {b}.                                      *)
(***************************************************************************)
PathA == <<"a", ".", "s", "r", "t">>

PathB == <<"b", ".", "v", "t", "t">>

TsBad == <<"0", ":", "2", " ", "-", "-", ">", " ", "0", ":", "3">>

TsTwo == <<"0", ":", "0", ":", "2", " ", "-", "-", ">", " ", "0", ":", "0", ":", "4">>

TsThree == <<"0", ":", "0", ":", "3", ",", "0", " ", "-", "-", ">", " ", "0", ":", "0", ":", "5">>

TsNan == <<"n", "a", "n", ":", "0", ":", "0", " ", "-", "-", ">", " ", "0", ":", "0", ":", "5">>

TextAB == <<"a", " ", "b">>

TextA == <<"A">>

TextB == <<"b">>

MatchUniverse ==
  { Match(PathA, TsBad, 1, TextAB), Match(PathA, TsBad, 2, TextB),
    Match(PathA, TsTwo, 3, TextA), Match(PathA, TsTwo, 4, TextB),
    Match(PathA, TsThree, 5, TextAB), Match(PathA, TsNan, 6, TextA),
    Match(PathB, TsTwo, 3, TextA), Match(PathB, TsBad, 1, TextAB) }

RECURSIVE SeqsUpTo(_, _)
SeqsUpTo(S, n) ==
  IF n = 0 THEN {<<>>}
  ELSE LET shorter == SeqsUpTo(S, n - 1)
       IN  shorter \cup {Append(q, x) : q \in {r \in shorter : Len(r) = n - 1}, x \in S}

\* <<similarity_threshold, time_window>>: 0.5 with 3 s, and 0.8 with 1 s and 3 s
Settings == {<<<<1, 2>>, 3000>>, <<<<4, 5>>, 1000>>, <<<<4, 5>>, 3000>>}

NoRerun == [kind |-> "none", file |-> <<>>, out |-> <<>>]

(***************************************************************************)
(* The lines a subtitle file is made of, for the parsers.                  *)
(***************************************************************************)
LineMenu ==
  { <<>>,
    <<"1">>,
    <<"A", "b">>,
    <<"<", "c", ">">>,
    <<"W", "E", "B", "V", "T", "T">>,
    TimeDotted,
    <<"0", ":", "1", " ", "-", "-", ">", " ", "0", ":", "2", " ", "-", "-", ">", " ", "0", ":", "3">>,
    <<"0", ":", "0", ":", "2", " ", "s", "i", "z", "e", ":", "-", "-", ">">> }

\* 'ab' and 'AB' differ from the text 'Ab c' in case only
SearchTerms == { <<"a", "b">>, <<"A", "B">>, <<"c">> }

\* the defaults of search_in_subtitle_files
DefaultThreshold == <<4, 5>>

DefaultWindow == 30000

VARIABLES pc, matches, similarity_threshold, time_window, strict_mode,
          deduplicated, rerun,
          file_lines, srt_cues, vtt_cues,
          file_paths, search_term, case_sensitive, deduplicate, result,
          timestamp, start_time

params == <<similarity_threshold, time_window, strict_mode>>

dedupVars == <<matches, deduplicated>>

parseVars == <<file_lines, srt_cues, vtt_cues>>

searchVars == <<file_paths, search_term, case_sensitive, deduplicate, result>>

stampVars == <<timestamp, start_time>>

vars == <<pc, params, dedupVars, rerun, parseVars, searchVars, stampVars>>

NoParse == file_lines = <<>> /\ srt_cues = <<>> /\ vtt_cues = <<>>

NoSearch ==
  /\ file_paths = <<>>
  /\ search_term = <<>>
  /\ case_sensitive = FALSE
  /\ deduplicate = FALSE
  /\ result = <<>>

NoDedup == matches = <<>> /\ deduplicated = <<>>

NoStamp == timestamp = <<>> /\ start_time = Num(0)

(***************************************************************************)
(* Calls of deduplicate_matches                                            *)
(***************************************************************************)
Init ==
  /\ pc = "start"
  /\ matches \in SeqsUpTo(MatchUniverse, MaxLen)
  /\ \E st \in Settings : similarity_threshold = st[1] /\ time_window = st[2]
  /\ strict_mode \in BOOLEAN
  /\ deduplicated = <<>>
  /\ rerun = NoRerun
  /\ NoParse
  /\ NoSearch
  /\ NoStamp

\* the caller's list had the function sorted its argument in place
CallerListSorted(ms) == SortByTime(ms)

\* the caller's list after the call: the function sorts the lists it built in
\* file_groups, never its argument
CallerList(ms) == ms

\* deduplicated = deduplicate_matches(matches, ...)
Deduplicate ==
  /\ pc = "start"
  /\ deduplicated' = deduplicate_matches(matches, similarity_threshold, time_window, strict_mode)
  /\ matches' = CallerList(matches)
  /\ pc' = "deduped"
  /\ UNCHANGED <<params, rerun, parseVars, searchVars, stampVars>>

\* a second call on the first call's result, same parameters
DeduplicateAgain ==
  /\ pc = "deduped"
  /\ rerun' = [kind |-> "again", file |-> <<>>,
               out |-> deduplicate_matches(deduplicated, similarity_threshold,
                                           time_window, strict_mode)]
  /\ pc' = "done"
  /\ UNCHANGED <<params, dedupVars, parseVars, searchVars, stampVars>>

\* a call on the same input in the other mode
DeduplicateOtherMode ==
  /\ pc = "deduped"
  /\ rerun' = [kind |-> "mode", file |-> <<>>,
               out |-> deduplicate_matches(matches, similarity_threshold,
                                           time_window, ~strict_mode)]
  /\ pc' = "done"
  /\ UNCHANGED <<params, dedupVars, parseVars, searchVars, stampVars>>

\* a call on the matches of one file only
DeduplicateOneFile ==
  /\ pc = "deduped"
  /\ \E fp \in {PathA, PathB} :
       rerun' = [kind |-> "file", file |-> fp,
                 out |-> deduplicate_matches(GroupOf(matches, fp), similarity_threshold,
                                             time_window, strict_mode)]
  /\ pc' = "done"
  /\ UNCHANGED <<params, dedupVars, parseVars, searchVars, stampVars>>

Next ==
  \/ Deduplicate
  \/ DeduplicateAgain
  \/ DeduplicateOtherMode
  \/ DeduplicateOneFile

Spec == Init /\ [][Next]_vars

(***************************************************************************)
(* Calls of the parsers on one file                                        *)
(***************************************************************************)
\* the file that holds file_lines
FileOf(lines) == [status |-> "utf8", content |-> Join(lines, NL)]

ParseInit ==
  /\ pc = "start"
  /\ file_lines \in SeqsUpTo(LineMenu, MaxLines)
  /\ srt_cues = <<>>
  /\ vtt_cues = <<>>
  /\ similarity_threshold = DefaultThreshold
  /\ time_window = DefaultWindow
  /\ strict_mode = TRUE
  /\ rerun = NoRerun
  /\ NoDedup
  /\ NoSearch
  /\ NoStamp

\* subtitles = parse_srt_file(file_path)
ParseSrt ==
  /\ pc = "start"
  /\ srt_cues' = parse_srt_file(FileOf(file_lines))
  /\ pc' = "srt"
  /\ UNCHANGED <<params, dedupVars, rerun, file_lines, vtt_cues, searchVars, stampVars>>

\* subtitles = parse_vtt_file(file_path), on the same content
ParseVtt ==
  /\ pc = "srt"
  /\ vtt_cues' = parse_vtt_file(FileOf(file_lines))
  /\ pc' = "parsed"
  /\ UNCHANGED <<params, dedupVars, rerun, file_lines, srt_cues, searchVars, stampVars>>

ParseNext ==
  \/ ParseSrt
  \/ ParseVtt

ParseSpec == ParseInit /\ [][ParseNext]_vars

(***************************************************************************)
(* Calls of search_in_subtitle_files                                       *)
(***************************************************************************)
SearchInit ==
  /\ pc = "start"
  /\ file_paths \in SeqsUpTo(Paths, MaxFiles)
  /\ search_term \in SearchTerms
  /\ case_sensitive \in BOOLEAN
  /\ deduplicate \in BOOLEAN
  /\ similarity_threshold = DefaultThreshold
  /\ time_window = DefaultWindow
  /\ strict_mode \in BOOLEAN
  /\ result = <<>>
  /\ rerun = NoRerun
  /\ NoDedup
  /\ NoParse
  /\ NoStamp

\* the file cannot be read, or its extension is neither .srt nor .vtt
FileFails(file_path) ==
  \/ ~ReadOk(Disk(file_path))
  \/ Lower(SplitExt(file_path)) \notin {ExtSrt, ExtVtt}

\* result = search_in_subtitle_files(file_paths, ...)
Search ==
  /\ pc = "start"
  /\ result' = search_in_subtitle_files(file_paths, search_term, case_sensitive, deduplicate,
                                        similarity_threshold, time_window, strict_mode)
  /\ pc' = "searched"
  /\ UNCHANGED <<params, dedupVars, rerun, parseVars,
                 file_paths, search_term, case_sensitive, deduplicate, stampVars>>

\* the same search with the failing files left out of file_paths
SearchWithoutFailing ==
  /\ pc = "searched"
  /\ LET Works(fp) == ~FileFails(fp)
     IN  rerun' = [kind |-> "skip", file |-> <<>>,
                   out |-> search_in_subtitle_files(SelectSeq(file_paths, Works), search_term,
                                                    case_sensitive, deduplicate,
                                                    similarity_threshold, time_window,
                                                    strict_mode)]
  /\ pc' = "done"
  /\ UNCHANGED <<params, dedupVars, parseVars, searchVars, stampVars>>

SearchNext ==
  \/ Search
  \/ SearchWithoutFailing

SearchSpec == SearchInit /\ [][SearchNext]_vars

(***************************************************************************)
(* Calls of parse_timestamp on one time range: up to MaxFields fields      *)
(* joined by ':', then nothing, or an arrow and an end time.               *)
(***************************************************************************)
FieldMenu ==
  { <<"0">>, <<"1">>, <<"2", ",", "5">>, <<" ", "3">>, <<"x">>, <<>> }

EndMenu ==
  { <<>>,
    <<" ", "-", "-", ">", " ", "0", ":", "0", ":", "9">>,
    <<"-", "-", ">", "0", ":", "0", ":", "9">> }

StampInit ==
  /\ pc = "start"
  /\ \E fields \in SeqsUpTo(FieldMenu, MaxFields), end \in EndMenu :
       fields # <<>> /\ timestamp = Join(fields, <<":">>) \o end
  /\ start_time = Num(0)
  /\ similarity_threshold = DefaultThreshold
  /\ time_window = DefaultWindow
  /\ strict_mode = TRUE
  /\ rerun = NoRerun
  /\ NoDedup
  /\ NoParse
  /\ NoSearch

\* current_time = parse_timestamp(current_match.timestamp)
ParseTimestamp ==
  /\ pc = "start"
  /\ start_time' = parse_timestamp(timestamp)
  /\ pc' = "parsed"
  /\ UNCHANGED <<params, dedupVars, rerun, parseVars, searchVars, timestamp>>

StampNext == ParseTimestamp

StampSpec == StampInit /\ [][StampNext]_vars

(***************************************************************************)
(* Properties of deduplicate_matches                                       *)
(***************************************************************************)
StartOf(m) == parse_timestamp(m.timestamp)

Count(ms, m) == Cardinality({i \in 1..Len(ms) : ms[i] = m})

Survives(m) == \E p \in 1..Len(deduplicated) : deduplicated[p] = m

OfFile(ms, fp) == LET Same(m) == m.file_path = fp IN SelectSeq(ms, Same)

\* C1: deduplicating the result of a deduplication again, with the same
\* parameters, returns the same matches in the same order.
C1_Idempotent == rerun.kind = "again" => rerun.out = deduplicated

\* C2: the matches retained for a file are those retained when the
\* deduplicator is given that file's matches alone, and two matches of
\* different files are never deduplicated against each other.
C2_CrossFileIsolation ==
  /\ rerun.kind = "file" => OfFile(deduplicated, rerun.file) = rerun.out
  /\ (pc # "start" /\ Len(matches) = 2 /\ matches[1].file_path # matches[2].file_path)
       => deduplicated = matches

C2_Witness ==
  /\ rerun.kind = "file"
  /\ Len(deduplicated) < Len(matches)
  /\ \E i \in 1..Len(matches), j \in 1..Len(matches) :
       /\ matches[i].file_path # matches[j].file_path
       /\ matches[i].text = matches[j].text
       /\ matches[i].timestamp = matches[j].timestamp
       /\ Survives(matches[i]) /\ Survives(matches[j])

\* C3 as claimed: two surviving matches of different files keep their input
\* order in the output (stated for matches that occur once in the input, so
\* that equal records are not mistaken for one another).
C3_InputOrderAcrossFiles ==
  pc # "start" =>
    \A i \in 1..Len(matches), j \in 1..Len(matches) :
      (/\ i < j
       /\ matches[i].file_path # matches[j].file_path
       /\ Count(matches, matches[i]) = 1 /\ Count(matches, matches[j]) = 1
       /\ Survives(matches[i]) /\ Survives(matches[j]))
      => \E p \in 1..Len(deduplicated), q \in 1..Len(deduplicated) :
           p < q /\ deduplicated[p] = matches[i] /\ deduplicated[q] = matches[j]

\* the index at which a file path first occurs in ms
FirstIndex(ms, fp) ==
  CHOOSE i \in 1..Len(ms) :
    ms[i].file_path = fp /\ \A j \in 1..(i - 1) : ms[j].file_path # fp

\* C3 amended: the output is regrouped by file; surviving matches of
\* different files are ordered by the first occurrence of their file paths
\* in the input.
C3_GroupOrder ==
  pc # "start" =>
    \A p \in 1..Len(deduplicated), q \in 1..Len(deduplicated) :
      deduplicated[p].file_path # deduplicated[q].file_path
      => (p < q <=> FirstIndex(matches, deduplicated[p].file_path)
                      < FirstIndex(matches, deduplicated[q].file_path))

C3_Witness ==
  /\ pc # "start"
  /\ Len(matches) = 3
  /\ Len(deduplicated) = 3
  /\ matches[1].file_path = matches[3].file_path
  /\ matches[1].file_path # matches[2].file_path

\* C4: the surviving matches of one file are in ascending order of parsed
\* start time: none of them has a start time less than that of a match
\* before it.
C4_SortedWithinFile ==
  pc # "start" =>
    \A p \in 1..Len(deduplicated), q \in 1..Len(deduplicated) :
      (p < q /\ deduplicated[p].file_path = deduplicated[q].file_path)
      => ~FloatLess(StartOf(deduplicated[q]), StartOf(deduplicated[p]))

\* similarity equal to the threshold and start-time distance equal to the window
AtBoundary(x, y) ==
  LET sim == text_similarity(x.text, y.text)
  IN  /\ x.file_path = y.file_path
      /\ sim[1] * similarity_threshold[2] = similarity_threshold[1] * sim[2]
      /\ FloatAbs(FloatSub(StartOf(x), StartOf(y))) = Num(time_window)

BoundaryHandled(out) ==
  /\ \A p \in 1..Len(out), q \in 1..Len(out) : p < q => ~AtBoundary(out[p], out[q])
  /\ (Len(matches) = 2 /\ AtBoundary(matches[1], matches[2]))
       => out = <<IF FloatLess(StartOf(matches[2]), StartOf(matches[1]))
                  THEN matches[2] ELSE matches[1]>>

\* C5: in both modes, two matches of one file whose similarity equals the
\* threshold and whose start-time distance equals the window are duplicates:
\* they never both survive, and of two such matches the later one is removed.
C5_InclusiveThresholds ==
  /\ pc # "start" => BoundaryHandled(deduplicated)
  /\ rerun.kind = "mode" => BoundaryHandled(rerun.out)

C5_Witness ==
  /\ rerun.kind = "mode"
  /\ Len(matches) = 2
  /\ AtBoundary(matches[1], matches[2])
  /\ time_window > CloseTime
  /\ Len(deduplicated) = 1
  /\ Len(rerun.out) = 1

\* C6: a call leaves the caller's list as it was, and its result holds no
\* match that the input does not hold, nor any match more often than the
\* input holds it.
C6_OnlyRemoves ==
  [][pc = "start" =>
       /\ matches' = matches
       /\ \A p \in 1..Len(deduplicated') :
            Count(deduplicated', deduplicated'[p]) <= Count(matches, deduplicated'[p])]_vars

C6_Witness ==
  /\ pc = "deduped"
  /\ Len(deduplicated) < Len(matches)
  /\ Len(deduplicated) >= 2
  /\ \E i \in 1..Len(matches), j \in 1..Len(matches) :
       i < j /\ matches[i] = matches[j]
  /\ \E i \in 1..Len(matches), j \in 1..Len(matches) :
       i < j /\ FloatLess(StartOf(matches[j]), StartOf(matches[i]))

\* C10 as claimed: aggressive mode never returns more matches than strict
\* mode for the same input, threshold and window.
C10_StrictKeepsMore ==
  rerun.kind = "mode" =>
    LET strict == IF strict_mode THEN deduplicated ELSE rerun.out
        aggressive == IF strict_mode THEN rerun.out ELSE deduplicated
    IN  Len(aggressive) <= Len(strict)

\* the duplicate predicate of a mode, on the similarity and the start-time
\* distance of two matches
C11_Predicate(x, y, strict) ==
  LET similarity == text_similarity(x.text, y.text)
      time_distance == FloatAbs(FloatSub(StartOf(x), StartOf(y)))
  IN  IF strict
      THEN \/ /\ FracGeq(similarity, similarity_threshold)
              /\ FloatLeq(time_distance, Num(time_window))
           \/ FloatLeq(time_distance, Num(2000)) /\ FracGeq(similarity, <<1, 2>>)
      ELSE \/ FracGeq(similarity, similarity_threshold)
           \/ FloatLeq(time_distance, Num(time_window))

\* the entries of q that keep marks, in order
RECURSIVE Kept(_, _, _)
Kept(q, keep, k) ==
  IF k > Len(q) THEN <<>>
  ELSE (IF keep[k] THEN <<q[k]>> ELSE <<>>) \o Kept(q, keep, k + 1)

\* out retains, of every file group taken in the order of processing, the
\* candidates that are duplicates of no match retained before them
RetainsNonDuplicates(out, strict) ==
  \A fp \in {PathA, PathB} :
    LET group == SortByTime(GroupOf(matches, fp))
        n == Len(group)
        \* duplicate[k][j], j < k: the candidate k and the match j before it
        \* satisfy the predicate
        duplicate == SubSeq([k \in 1..n |->
                               SubSeq([j \in 1..(k - 1) |->
                                         C11_Predicate(group[k], group[j], strict)],
                                      1, k - 1)], 1, n)
    IN  \E keep \in [1..n -> BOOLEAN] :
          /\ \A k \in 1..n :
               keep[k] <=> ~\E j \in 1..(k - 1) : keep[j] /\ duplicate[k][j]
          /\ OfFile(out, fp) = Kept(group, keep, 1)

NoRetainedDuplicates(out, strict) ==
  \A p \in 1..Len(out), q \in 1..Len(out) :
    (p # q /\ out[p].file_path = out[q].file_path)
    => ~C11_Predicate(out[p], out[q], strict)

\* C11: a candidate of a file group is removed if and only if a match of
\* that file retained before it satisfies the duplicate predicate of the
\* mode with it, and is appended to the retained matches otherwise; no two
\* retained matches of one file satisfy the predicate.
C11_RemovedIffDuplicate ==
  pc = "deduped" => /\ RetainsNonDuplicates(deduplicated, strict_mode)
                    /\ NoRetainedDuplicates(deduplicated, strict_mode)

\* a candidate removed for a retained match that is not the last retained one
C11_Witness ==
  /\ pc = "deduped"
  /\ Len(matches) = 3
  /\ Len(deduplicated) = 2
  /\ deduplicated[1].file_path = deduplicated[2].file_path
  /\ \E i \in 1..3 :
       /\ matches[i].file_path = deduplicated[1].file_path
       /\ ~Survives(matches[i])
       /\ C11_Predicate(matches[i], deduplicated[1], strict_mode)
       /\ ~C11_Predicate(matches[i], deduplicated[2], strict_mode)

\* m has the earliest start time of the matches of its file in the input,
\* and is the first in the input of those that start then
EarliestOfFile(m) ==
  \E i \in 1..Len(matches) :
    /\ matches[i] = m
    /\ \A j \in 1..Len(matches) :
         matches[j].file_path = m.file_path
         => /\ ~FloatLess(StartOf(matches[j]), StartOf(m))
            /\ j < i => StartOf(matches[j]) # StartOf(m)

\* C13 as claimed: for every file path of the input the output holds matches,
\* the first of which is the match of that file with the earliest parsed
\* start time (the first in the input among ties); the output is empty only
\* when the input is.
C13_FirstRetained ==
  pc # "start" =>
    /\ \A i \in 1..Len(matches) :
         LET retained == OfFile(deduplicated, matches[i].file_path)
         IN  retained # <<>> /\ EarliestOfFile(retained[1])
    /\ deduplicated = <<>> => matches = <<>>

(***************************************************************************)
(* Properties of search_in_subtitle_files                                  *)
(***************************************************************************)
\* the cue c of the file k of file_paths contains the search term
IsHit(k, c) ==
  LET text == parse_subtitle_file(file_paths[k])[c].text
  IN  IF case_sensitive THEN Contains(text, search_term)
      ELSE Contains(Lower(text), Lower(search_term))

Hits ==
  UNION { {<<k, c>> : c \in {d \in 1..Len(parse_subtitle_file(file_paths[k])) : IsHit(k, d)}} :
          k \in 1..Len(file_paths) }

\* the place of a hit among the hits, files in the order given, cues in parse order
Rank(h) ==
  Cardinality({g \in Hits : g[1] < h[1] \/ (g[1] = h[1] /\ g[2] <= h[2])})

\* C7: with deduplication disabled the result holds exactly one match per
\* cue that contains the term (case folded unless case_sensitive), files in
\* the order given, cues in parse order, each match carrying the cue's fields.
C7_RawSequence ==
  (pc # "start" /\ ~deduplicate) =>
    /\ Len(result) = Cardinality(Hits)
    /\ \A h \in Hits :
         LET cue == parse_subtitle_file(file_paths[h[1]])[h[2]]
         IN  result[Rank(h)] = Match(file_paths[h[1]], cue.timestamp, cue.number, cue.text)

C7_Witness ==
  /\ pc # "start"
  /\ ~deduplicate
  /\ ~case_sensitive
  /\ search_term = <<"A", "B">>
  /\ Len(result) = 3
  /\ result[1].file_path # result[3].file_path
  /\ FloatLess(StartOf(result[2]), StartOf(result[1]))

\* the files of the disk that fail: c.txt is no subtitle file, g.srt cannot be read
FailingPaths == {PathTxt, PathGone}

\* C8: a file that cannot be read or has an unsupported extension adds no
\* match, and the result equals the result of the same search without the
\* failing files.
C8_FailuresSkipped ==
  /\ pc # "start" =>
       \A p \in 1..Len(result) : result[p].file_path \notin FailingPaths
  /\ rerun.kind = "skip" =>
       /\ rerun.out = result
       /\ \A fp \in Paths : FileFails(fp) <=> fp \in FailingPaths

C8_Witness ==
  /\ rerun.kind = "skip"
  /\ Len(file_paths) = 2
  /\ file_paths[1] \in FailingPaths
  /\ file_paths[2] \notin FailingPaths
  /\ Len(result) >= 2

(***************************************************************************)
(* Properties of the parsers                                               *)
(***************************************************************************)
\* s.count('-->')
RECURSIVE ArrowCountFrom(_, _)
ArrowCountFrom(s, i) ==
  IF i + 2 > Len(s) THEN 0
  ELSE IF s[i] = "-" /\ s[i + 1] = "-" /\ s[i + 2] = ">" THEN 1 + ArrowCountFrom(s, i + 3)
  ELSE ArrowCountFrom(s, i + 1)

ArrowCount(s) == ArrowCountFrom(s, 1)

\* C9 as claimed: every cue of either parser has exactly one '-->' in its
\* time range.
C9_OneSeparator ==
  /\ \A k \in 1..Len(srt_cues) : ArrowCount(srt_cues[k].timestamp) = 1
  /\ \A k \in 1..Len(vtt_cues) : ArrowCount(vtt_cues[k].timestamp) = 1

BlockStartsAt(k) == k = 1 \/ file_lines[k - 1] = <<>>

\* C9 amended: neither parser checks the time-range line.  An SRT cue takes
\* the line after an integer line as its time range, as it stands; a VTT cue
\* takes a line that contains '-->', cue settings removed and '.' replaced
\* by ','.  A block with a time-range line of no or several '-->' is a cue.
C9_TimeRangeUnchecked ==
  /\ pc # "start" =>
       /\ \A c \in 1..Len(srt_cues) :
            \E k \in 2..Len(file_lines) :
              /\ ~IntFails(file_lines[k - 1])
              /\ srt_cues[c].number = IntVal(file_lines[k - 1])
              /\ srt_cues[c].timestamp = Strip(file_lines[k])
       /\ \A k \in 1..Len(file_lines) :
            (/\ BlockStartsAt(k)
             /\ k + 2 <= Len(file_lines)
             /\ ~IntFails(file_lines[k])
             /\ file_lines[k + 1] # <<>>
             /\ file_lines[k + 2] # <<>>)
            => \E c \in 1..Len(srt_cues) : srt_cues[c].timestamp = Strip(file_lines[k + 1])
  /\ pc = "parsed" =>
       /\ \A c \in 1..Len(vtt_cues) :
            \E k \in 1..Len(file_lines) :
              /\ ArrowCount(file_lines[k]) >= 1
              /\ vtt_cues[c].timestamp = VttTimestamp(file_lines[k])
       /\ \A k \in 1..Len(file_lines) :
            (/\ BlockStartsAt(k)
             /\ k + 1 <= Len(file_lines)
             /\ ArrowCount(file_lines[k]) >= 1
             /\ CleanTextLine(file_lines[k + 1]) # <<>>)
            => \E c \in 1..Len(vtt_cues) :
                 vtt_cues[c].timestamp = VttTimestamp(file_lines[k])

C9_Witness ==
  /\ pc = "parsed"
  /\ \E c \in 1..Len(srt_cues) : ArrowCount(srt_cues[c].timestamp) = 0
  /\ \E c \in 1..Len(vtt_cues) : ArrowCount(vtt_cues[c].timestamp) = 2

(***************************************************************************)
(* Properties of parse_timestamp                                           *)
(***************************************************************************)
\* the substring of a time range before its first '-->'
BeforeArrow(ts) ==
  LET k == Find(ts, Arrow)
  IN  IF k = 0 THEN ts ELSE Slice(ts, 1, k - 1)

\* H*3600 + M*60 + S of the fields H:M:S of the text, ',' read as '.', and
\* 0.0 when the text has fewer than three fields or one of the three is not
\* a number
HoursMinutesSeconds(text) ==
  LET fields == SplitChar(ReplaceChar(text, ",", "."), ":")
  IN  IF Len(fields) < 3 \/ \E i \in 1..3 : FloatFails(fields[i]) THEN Num(0)
      ELSE FloatAdd(FloatAdd(FloatTimes(float(fields[1]), 3600),
                             FloatTimes(float(fields[2]), 60)),
                    float(fields[3]))

\* C12 as claimed: the start time of a time range is H*3600 + M*60 + S of
\* the substring before '-->', and 0.0 when that substring cannot be parsed.
C12_StartBeforeArrow ==
  pc = "parsed" => start_time = HoursMinutesSeconds(BeforeArrow(timestamp))

====
